---- MODULE Spec2Model ----
(***************************************************************************)
(* Model of src/app.py: the upload/analysis orchestration of the Social    *)
(* Media Critic application (temporary_file, upload_file_to_gemini,        *)
(* analyze_content with its response parser, and the analyze branch of     *)
(* main).                                                                  *)
(*                                                                         *)
(* A text is a sequence of symbols.  A symbol is one character (BT, the     *)
(* backtick, a brace, blank, comma, x) or a lexeme the code never splits:   *)
(* the word json, the JSON members score:80 and title:t, which stand for a *)
(* member of key score and number 80 and one of key title and string t.    *)
(*                                                                         *)
(* src/app.py lines 89-90 are indented deeper than the rest of the body of *)
(* upload_file_to_gemini; the model reads the body as the statement        *)
(* sequence 89, 90, 91-96, 97-98, 99.                                      *)
(*                                                                         *)
(* A key is a record of what tells it from another key and of the length of*)
(* its stripped text; a file is a record of its name (a sequence of        *)
(* characters) and its size in bytes.  The staged file is the range of the *)
(* upload stream that was copied: the position of its first byte and the   *)
(* number of bytes.  st.file_uploader hands over the stream at position 0 in*)
(* every script run.                                                       *)
(*                                                                         *)
(* genai keeps one configuration per process: genai.configure replaces it, *)
(* genai.upload_file and genai.get_file use it as it is when called, and a *)
(* GenerativeModel takes its client from it at its first call and keeps it.*)
(* st.cache_resource runs the body of configure_gemini_model once per key. *)
(*                                                                         *)
(* Specifications: Spec, the script runs of main with the key of the       *)
(* environment; SpecSession, the same with any environment, secret store and*)
(* typed keys; SpecParse, SpecValidate and SpecUpload (SpecUploadFair with *)
(* fairness), the parser, validate_file and upload_file_to_gemini from their*)
(* first line, on inputs drawn from larger sets.                           *)
(***************************************************************************)
EXTENDS Integers, Sequences, FiniteSets, TLC

\* ------------------------------------------------------------------ bounds
\* number of segments a response text of the parser specification is built from
MaxSegs == 4
\* largest number of seconds one poll iteration (sleep + get_file) may take
MaxAdvance == 3

\* a file name is made of at most this many segments
MaxNameSegs == 3

\* --------------------------------------------------------------- constants
UPLOAD_TIMEOUT_SECONDS == 120
max_retries == 2
POLL_INTERVAL == 1

\* the remote asset states; lines 92 and 97 tell PROCESSING and FAILED from the
\* rest, the names of the other two are the data model's
States == {"PENDING", "PROCESSING", "READY", "FAILED"}

required_fields == <<"score", "title", "critique", "improvement", "next_time">>

\* ------------------------------------------------------------ JSON values
Num(n) == [type |-> "num", num |-> n, str |-> ""]
Str(s) == [type |-> "str", num |-> 0, str |-> s]

\* ------------------------------------------------------- string operations
Whitespace == {" "}
\* BT is the backtick character
Fence == <<"BT", "BT", "BT">>
JsonFence == <<"BT", "BT", "BT", "json">>

MatchesAt(s, pat, i) ==
    /\ i + Len(pat) - 1 =< Len(s)
    /\ SubSeq(s, i, i + Len(pat) - 1) = pat

\* str.find(pat): 0-based index of the first occurrence, -1 when absent
find(s, pat) ==
    IF \E i \in 1..Len(s) : MatchesAt(s, pat, i)
    THEN (CHOOSE i \in 1..Len(s) :
            /\ MatchesAt(s, pat, i)
            /\ \A j \in 1..(i - 1) : ~MatchesAt(s, pat, j)) - 1
    ELSE -1

\* str.rfind(pat): 0-based index of the last occurrence, -1 when absent
rfind(s, pat) ==
    IF \E i \in 1..Len(s) : MatchesAt(s, pat, i)
    THEN (CHOOSE i \in 1..Len(s) :
            /\ MatchesAt(s, pat, i)
            /\ \A j \in (i + 1)..Len(s) : ~MatchesAt(s, pat, j)) - 1
    ELSE -1

\* pat in s
Contains(s, pat) == find(s, pat) # -1

\* s[a:b] for 0 <= a, 0 <= b
Slice(s, a, b) == SubSeq(s, a + 1, IF b < Len(s) THEN b ELSE Len(s))

\* s.split(sep)[0]
SplitHead(s, sep) ==
    IF Contains(s, sep) THEN Slice(s, 0, find(s, sep)) ELSE s

\* s.split(sep)[1], for sep in s
SplitSecond(s, sep) ==
    SplitHead(Slice(s, find(s, sep) + Len(sep), Len(s)), sep)

\* s.strip()
RECURSIVE lstrip(_)
lstrip(s) ==
    IF s # <<>> /\ Head(s) \in Whitespace THEN lstrip(Tail(s)) ELSE s

RECURSIVE rstrip(_)
rstrip(s) ==
    IF s # <<>> /\ s[Len(s)] \in Whitespace
    THEN rstrip(SubSeq(s, 1, Len(s) - 1)) ELSE s

strip(s) == rstrip(lstrip(s))

\* ExtractCandidate with the two tests in the other order
ExtractCandidate_AnyFenceFirst(t) ==
    IF Contains(t, Fence)
    THEN SplitHead(SplitSecond(t, Fence), Fence)
    ELSE t

\* lines 133-136: the candidate the braces are looked for in
ExtractCandidate(t) ==
    IF Contains(t, JsonFence)
    THEN SplitHead(SplitSecond(t, JsonFence), Fence)
    ELSE IF Contains(t, Fence)
         THEN SplitHead(SplitSecond(t, Fence), Fence)
         ELSE t

\* --------------------------------------------------------------- json.loads
\* the member lexemes and what they denote
Members == {"score:80", "title:t"}
MemberKey(m) == IF m = "score:80" THEN "score" ELSE "title"
MemberVal(m) == IF m = "score:80" THEN Num(80) ELSE Str("t")

RECURSIVE DropWhitespace(_)
DropWhitespace(s) ==
    IF s = <<>> THEN <<>>
    ELSE IF Head(s) \in Whitespace THEN DropWhitespace(Tail(s))
         ELSE <<Head(s)>> \o DropWhitespace(Tail(s))

\* a member list: members at the odd places, commas at the even ones
IsMemberList(toks) ==
    /\ Len(toks) % 2 = 1
    /\ \A i \in 1..Len(toks) :
          IF i % 2 = 1 THEN toks[i] \in Members ELSE toks[i] = ","

\* the tokens between the braces of an object, whitespace dropped
Inner(s) == DropWhitespace(SubSeq(s, 2, Len(s) - 1))

\* does s denote one JSON object (and nothing else)
IsJsonObject(s) ==
    /\ Len(s) >= 2
    /\ s[1] = "{"
    /\ s[Len(s)] = "}"
    /\ \/ Inner(s) = <<>>
       \/ IsMemberList(Inner(s))

\* the dict of an object: a later member of the same key replaces an earlier one
ObjectOf(s) ==
    LET toks == Inner(s)
        idx(k) == {i \in 1..Len(toks) : toks[i] \in Members /\ MemberKey(toks[i]) = k}
        keys == {MemberKey(toks[i]) : i \in {j \in 1..Len(toks) : toks[j] \in Members}}
        last(k) == CHOOSE i \in idx(k) : \A j \in idx(k) : j =< i
    IN [k \in keys |-> MemberVal(toks[last(k)])]

\* json.loads(s): the parsed object, or JSONDecodeError
JsonLoads(s) ==
    IF IsJsonObject(s)
    THEN [ok |-> TRUE, obj |-> ObjectOf(s)]
    ELSE [ok |-> FALSE, obj |-> <<>>]

\* lines 145-148: the loop over required_fields
RECURSIVE FillFrom(_, _)
FillFrom(result, i) ==
    IF i > Len(required_fields) THEN result
    ELSE LET field == required_fields[i]
             filled == IF field \in DOMAIN result
                       THEN result
                       ELSE [k \in DOMAIN result \cup {field} |->
                               IF k = field THEN Str("Missing " \o field)
                               ELSE result[k]]
         IN FillFrom(filled, i + 1)

\* FillMissing starting at the second field
FillMissing_SkipsFirst(result) == FillFrom(result, 2)

FillMissing(result) == FillFrom(result, 1)

\* ------------------------------------------------------------ exceptions
NoExc == [type |-> "none", msg |-> "", secs |-> 0]
Exc(t, m) == [type |-> t, msg |-> m, secs |-> 0]

\* line 94: the message names the configured timeout
TimeoutExc ==
    [type |-> "TimeoutError", msg |-> "Upload timed out after N seconds",
     secs |-> UPLOAD_TIMEOUT_SECONDS]

\* line 98
UploadFailedExc == Exc("ValueError", "File upload failed in Gemini API")

\* line 141
NoJsonExc == Exc("ValueError", "No valid JSON found in AI response")

\* line 144: json.loads raises json.JSONDecodeError, a subclass of ValueError
JsonDecodeExc == Exc("JSONDecodeError", "json.loads")

\* line 157: score / 100 of a placeholder string
DisplayExc == Exc("TypeError", "unsupported operand type(s) for /")

\* lines 63-68: reading the upload or writing the temp file fails
StageExc == Exc("OSError", "write")

\* what model.generate_content may raise (line 125)
InferenceErrors == {"ServiceUnavailable", "ResourceExhausted"}

NoData == [ok |-> FALSE, obj |-> <<>>]

\* the texts the remote model answers with in the orchestration specification
ResponseTexts ==
    { JsonFence \o <<"{", "score:80", ",", "title:t", "}">> \o Fence,
      <<"x", " ", "{", "score:80", "}", " ", "x">>,
      Fence \o <<"{", "title:t", "}">> \o Fence,
      <<"{", "x", "}">>,
      <<"x">> }

\* ------------------------------------------------------------ credentials
\* a credential string: what tells it from another one, and len(key.strip())
NoKey == [id |-> "", len |-> 0]
KeyA == [id |-> "A", len |-> 39]
KeyB == [id |-> "B", len |-> 39]
ShortKey == [id |-> "s", len |-> 30]

\* lines 49 and 178: the length a key has to exceed
MIN_KEY_LENGTH == 30

\* lines 49, 178
LongEnough(k) == k # NoKey /\ k.len > MIN_KEY_LENGTH

\* lines 46-48: the key of the environment, else the one of the secret store
SourcedKey(env, secret) == IF env # NoKey THEN env ELSE secret

\* lines 43-51: the key get_api_key returns
GetApiKey(session, env, secret) ==
    IF session # NoKey THEN session ELSE SourcedKey(env, secret)

\* lines 44-50: st.session_state.api_key after get_api_key
SessionAfterGet(session, env, secret) ==
    IF session # NoKey THEN session
    ELSE IF LongEnough(SourcedKey(env, secret)) THEN SourcedKey(env, secret)
         ELSE session

\* ------------------------------------------------------------------ files
MAX_FILE_SIZE_MB == 50
BYTES_PER_MB == 1048576
chunk_size == 8192

\* line 15-21: the keys of SUPPORTED_MIME_TYPES, as character sequences
SUPPORTED_MIME_TYPES ==
    { <<"p", "n", "g">>, <<"j", "p", "g">>, <<"j", "p", "e", "g">>,
      <<"m", "p", "4">>, <<"m", "o", "v">> }

\* no file in the uploader
NoFile == [name |-> <<>>, size |-> -1]

\* str.lower() of one character
LowerChar(c) ==
    IF c = "P" THEN "p" ELSE IF c = "N" THEN "n" ELSE IF c = "G" THEN "g"
    ELSE IF c = "M" THEN "m" ELSE c

\* str.lower()
lower(s) == [i \in 1..Len(s) |-> LowerChar(s[i])]

\* name.split('.')[-1]: what follows the last '.', the whole name without one
LastPart(name) ==
    LET dots == {i \in 1..Len(name) : name[i] = "."}
    IN IF dots = {} THEN name
       ELSE SubSeq(name, (CHOOSE i \in dots : \A j \in dots : j =< i) + 1, Len(name))

\* lines 58, 83, 225
Ext(name) == lower(LastPart(name))

\* lines 80-81: size / (1024 * 1024) > max, a division by a power of two
TooLarge(size) == size > MAX_FILE_SIZE_MB * BYTES_PER_MB

\* lines 77-86
ValidateFile(f) ==
    IF f = NoFile THEN [ok |-> FALSE, msg |-> "No file uploaded"]
    ELSE IF TooLarge(f.size) THEN [ok |-> FALSE, msg |-> "File too large"]
    ELSE IF Ext(f.name) \notin SUPPORTED_MIME_TYPES
         THEN [ok |-> FALSE, msg |-> "Unsupported file type"]
    ELSE [ok |-> TRUE, msg |-> ""]

\* line 63: the length of what read(chunk_size) returns with left bytes to go
ChunkLen(left) == IF left < chunk_size THEN left ELSE chunk_size

\* ChunkEnds that stops at the first chunk shorter than chunk_size
ChunkEnds_Short(n) == n < chunk_size

\* line 64: not chunk
ChunkEnds(n) == n = 0

\* the files put into the uploader in the orchestration specification
PngName == <<"a", ".", "P", "N", "G">>
Mp4Name == <<"c", ".", "m", "p", "4">>
GifName == <<"a", ".", "g", "i", "f">>
Files ==
    { [name |-> PngName, size |-> 0],
      [name |-> PngName, size |-> 100],
      [name |-> Mp4Name, size |-> 2 * chunk_size],
      [name |-> Mp4Name, size |-> 20000],
      [name |-> Mp4Name, size |-> MAX_FILE_SIZE_MB * BYTES_PER_MB + 1],
      [name |-> GifName, size |-> 100] }

\* ------------------------------------------------------------------ state
VARIABLES
    pc,           \* position of the script run
    sessionKey,   \* st.session_state.api_key
    envKey,       \* os.environ GOOGLE_API_KEY
    secretKey,    \* st.secrets GOOGLE_API_KEY
    api_key,      \* local api_key of main
    cache,        \* the keys st.cache_resource holds a client for
    configured,   \* the key genai.configure was last called with
    modelClient,  \* <<k, c>>: the model cached for key k holds a client made under c
    credsUsed,    \* the keys the remote calls of this run were made under
    uploaded_file, \* what st.file_uploader returned: name and size
    cursor,       \* position of the upload stream
    stagedFrom,   \* stream position of the first byte written to the temp file
    stagedLen,    \* number of bytes written to the temp file
    tmpExists,    \* the staged path tmp.name exists
    unlinkFailed, \* os.unlink raised OSError in this run
    leftBody,     \* the exception control left the try block of temporary_file with
    uploads,      \* calls of genai.upload_file in this run
    fileState,    \* uploaded_file.state.name
    elapsed,      \* time.time() - start_time
    polls,        \* calls of genai.get_file of the running poll loop, where counted
    timedOutAt,   \* elapsed when TimeoutError was raised, -1 before
    attempt,      \* loop variable of the retry loop
    calls,        \* calls of model.generate_content in this run
    sleeps,       \* the durations of the time.sleep calls of analyze_content
    raised,       \* the exceptions generate_content raised, in order
    response,     \* response.text
    txt,          \* local txt of analyze_content
    json_str,     \* local json_str
    data,         \* the value analyze_content returned
    exc,          \* the exception in flight
    surfaced      \* the st.error branch main took

vars == <<pc, sessionKey, envKey, secretKey, api_key, cache, configured,
          modelClient, credsUsed, uploaded_file, cursor, stagedFrom, stagedLen, tmpExists,
          unlinkFailed, leftBody, uploads, fileState, elapsed, polls,
          timedOutAt, attempt, calls, sleeps, raised, response, txt, json_str,
          data, exc, surfaced>>

sessVars == <<sessionKey, envKey, secretKey, api_key>>
configVars == <<cache, configured, modelClient>>
clientVars == <<cache, configured, modelClient, credsUsed>>
fileVars == <<uploaded_file, cursor, stagedFrom, stagedLen>>
tmpVars == <<tmpExists, unlinkFailed, leftBody>>
uploadVars == <<uploads, fileState, elapsed, timedOutAt>>
retryVars == <<attempt, calls, sleeps, raised, response>>
parseVars == <<txt, json_str, data>>

\* what a script run starts from: nothing of the run is there yet
RunLocalsReset ==
    /\ api_key' = NoKey
    /\ credsUsed' = {}
    /\ uploaded_file' = NoFile
    /\ cursor' = 0
    /\ stagedFrom' = 0
    /\ stagedLen' = 0
    /\ tmpExists' = FALSE
    /\ unlinkFailed' = FALSE
    /\ leftBody' = NoExc
    /\ uploads' = 0
    /\ fileState' = "none"
    /\ elapsed' = 0
    /\ polls' = 0
    /\ timedOutAt' = -1
    /\ attempt' = 0
    /\ calls' = 0
    /\ sleeps' = <<>>
    /\ raised' = <<>>
    /\ response' = <<>>
    /\ txt' = <<>>
    /\ json_str' = <<>>
    /\ data' = NoData
    /\ exc' = NoExc
    /\ surfaced' = "none"

\* the process has started with the given environment and secret store
Start(env, secret) ==
    /\ pc = "idle"
    /\ sessionKey = NoKey
    /\ envKey = env
    /\ secretKey = secret
    /\ api_key = NoKey
    /\ cache = {}
    /\ configured = NoKey
    /\ modelClient = {}
    /\ credsUsed = {}
    /\ uploaded_file = NoFile
    /\ cursor = 0
    /\ stagedFrom = 0
    /\ stagedLen = 0
    /\ tmpExists = FALSE
    /\ unlinkFailed = FALSE
    /\ leftBody = NoExc
    /\ uploads = 0
    /\ fileState = "none"
    /\ elapsed = 0
    /\ polls = 0
    /\ timedOutAt = -1
    /\ attempt = 0
    /\ calls = 0
    /\ sleeps = <<>>
    /\ raised = <<>>
    /\ response = <<>>
    /\ txt = <<>>
    /\ json_str = <<>>
    /\ data = NoData
    /\ exc = NoExc
    /\ surfaced = "none"

\* the key comes from the environment
Init == Start(KeyA, NoKey)

\* an exception leaves the body of the with statement (or the try block)
Raise(e) ==
    /\ exc' = e
    /\ leftBody' = e
    /\ pc' = "cleanup"

\* ------------------------------------------------------------------- main
\* lines 170-172
RunStart ==
    /\ pc = "idle"
    /\ api_key' = GetApiKey(sessionKey, envKey, secretKey)
    /\ sessionKey' = SessionAfterGet(sessionKey, envKey, secretKey)
    /\ pc' = "sidebar"
    /\ UNCHANGED <<envKey, secretKey, clientVars, fileVars, tmpVars, uploadVars,
                   polls, retryVars, parseVars, exc, surfaced>>

\* lines 176-180: a key is typed into the sidebar; a long enough one is kept
\* and the script is run again
EnterKey(typed) ==
    /\ pc = "sidebar"
    /\ api_key = NoKey
    /\ \E k \in typed :
          IF LongEnough(k)
          THEN sessionKey' = k /\ pc' = "idle"
          ELSE sessionKey' = sessionKey /\ pc' = "uploader"
    /\ UNCHANGED <<envKey, secretKey, api_key, clientVars, fileVars, tmpVars,
                   uploadVars, polls, retryVars, parseVars, exc, surfaced>>

\* lines 181-185: Clear API Key is clicked and the script is run again
ClearKey ==
    /\ pc = "sidebar"
    /\ api_key # NoKey
    /\ sessionKey' = NoKey
    /\ api_key' = NoKey
    /\ pc' = "idle"
    /\ UNCHANGED <<envKey, secretKey, clientVars, fileVars, tmpVars, uploadVars,
                   polls, retryVars, parseVars, exc, surfaced>>

\* lines 174-192: nothing is typed or clicked in the sidebar
SidebarPass ==
    /\ pc = "sidebar"
    /\ pc' = "uploader"
    /\ UNCHANGED <<sessVars, clientVars, fileVars, tmpVars, uploadVars, polls,
                   retryVars, parseVars, exc, surfaced>>

\* line 209: the uploader holds no file or one of files, as a fresh stream
UploaderReturns(files) ==
    /\ pc = "uploader"
    /\ \E f \in files \cup {NoFile} : uploaded_file' = f
    /\ cursor' = 0
    /\ pc' = "validate"
    /\ UNCHANGED <<sessVars, clientVars, stagedFrom, stagedLen, tmpVars,
                   uploadVars, polls, retryVars, parseVars, exc, surfaced>>

\* ValidateRejects without the return of line 215
ValidateRejects_GoesOn ==
    /\ pc = "validate"
    /\ uploaded_file # NoFile
    /\ ~ValidateFile(uploaded_file).ok
    /\ surfaced' = ValidateFile(uploaded_file).msg
    /\ pc' = "button"
    /\ UNCHANGED <<sessVars, clientVars, fileVars, tmpVars, uploadVars, polls,
                   retryVars, parseVars, exc>>

\* lines 211-215: the file is rejected and main returns
ValidateRejects ==
    /\ pc = "validate"
    /\ uploaded_file # NoFile
    /\ ~ValidateFile(uploaded_file).ok
    /\ surfaced' = ValidateFile(uploaded_file).msg
    /\ pc' = "stop"
    /\ UNCHANGED <<sessVars, clientVars, fileVars, tmpVars, uploadVars, polls,
                   retryVars, parseVars, exc>>

\* lines 211-217: no file, or a file that passes
ValidatePasses ==
    /\ pc = "validate"
    /\ uploaded_file = NoFile \/ ValidateFile(uploaded_file).ok
    /\ pc' = "button"
    /\ UNCHANGED <<sessVars, clientVars, fileVars, tmpVars, uploadVars, polls,
                   retryVars, parseVars, exc, surfaced>>

\* line 219: a file, a key and a click on Analyze
ClickAnalyze ==
    /\ pc = "button"
    /\ uploaded_file # NoFile
    /\ api_key # NoKey
    /\ pc' = "stage"
    /\ UNCHANGED <<sessVars, clientVars, fileVars, tmpVars, uploadVars, polls,
                   retryVars, parseVars, exc, surfaced>>

\* lines 219, 241: no file, no key or no click
NoAnalyze ==
    /\ pc = "button"
    /\ pc' = "stop"
    /\ UNCHANGED <<sessVars, clientVars, fileVars, tmpVars, uploadVars, polls,
                   retryVars, parseVars, exc, surfaced>>

\* --------------------------------------------------------- temporary_file
\* lines 54-59: the named temporary file is created
StageOpen ==
    /\ pc = "stage"
    /\ tmpExists' = TRUE
    /\ stagedFrom' = cursor
    /\ stagedLen' = 0
    /\ pc' = "stage_read"
    /\ UNCHANGED <<sessVars, clientVars, uploaded_file, cursor, unlinkFailed,
                   leftBody, uploadVars, polls, retryVars, parseVars, exc,
                   surfaced>>

\* lines 62-66: a chunk is read and written
StageChunk ==
    /\ pc = "stage_read"
    /\ ~ChunkEnds(ChunkLen(uploaded_file.size - cursor))
    /\ cursor' = cursor + ChunkLen(uploaded_file.size - cursor)
    /\ stagedLen' = stagedLen + ChunkLen(uploaded_file.size - cursor)
    /\ UNCHANGED <<pc, sessVars, clientVars, uploaded_file, stagedFrom, tmpVars,
                   uploadVars, polls, retryVars, parseVars, exc, surfaced>>

\* StageFile without the seek of line 69
StageFile_NoSeek ==
    /\ pc = "stage_read"
    /\ ChunkEnds(ChunkLen(uploaded_file.size - cursor))
    /\ pc' = "configure"
    /\ UNCHANGED <<sessVars, clientVars, fileVars, tmpVars, uploadVars, polls,
                   retryVars, parseVars, exc, surfaced>>

\* lines 63-70 and 222: the read returns nothing, the stream is rewound and the
\* path is handed to the body
StageFile ==
    /\ pc = "stage_read"
    /\ ChunkEnds(ChunkLen(uploaded_file.size - cursor))
    /\ cursor' = 0
    /\ pc' = "configure"
    /\ UNCHANGED <<sessVars, clientVars, uploaded_file, stagedFrom, stagedLen,
                   tmpVars, uploadVars, polls, retryVars, parseVars, exc,
                   surfaced>>

\* lines 62-68: reading or writing raises; the finally clause runs
StageFileFails ==
    /\ pc = "stage_read"
    /\ Raise(StageExc)
    /\ UNCHANGED <<sessVars, clientVars, fileVars, tmpExists, unlinkFailed,
                   uploadVars, polls, retryVars, parseVars, surfaced>>

\* ------------------------------------------------ configure_gemini_model
\* lines 38-41: the body runs for a key the cache has no client for
ConfigureGeminiModel(key) ==
    /\ IF key \in cache
       THEN UNCHANGED <<cache, configured>>
       ELSE /\ cache' = cache \cup {key}
            /\ configured' = key
    /\ UNCHANGED modelClient

\* line 118
Configure ==
    /\ pc = "configure"
    /\ ConfigureGeminiModel(api_key)
    /\ pc' = "upload"
    /\ UNCHANGED <<sessVars, credsUsed, fileVars, tmpVars, uploadVars, polls,
                   retryVars, parseVars, exc, surfaced>>

\* -------------------------------------------------- upload_file_to_gemini
\* lines 89, 96: a call of the genai module is made under the key it was last
\* configured with
RemoteCall ==
    /\ credsUsed' = credsUsed \cup {configured}
    /\ UNCHANGED configVars

\* the key the client of the model cached for key k was made under: the model
\* takes its client from the configuration at its first call and keeps it
ClientKey(k) ==
    IF \E p \in modelClient : p[1] = k
    THEN (CHOOSE p \in modelClient : p[1] = k)[2]
    ELSE configured

\* line 125: a call of the model returned by configure_gemini_model(api_key)
InferenceCall ==
    /\ credsUsed' = credsUsed \cup {ClientKey(api_key)}
    /\ modelClient' = modelClient \cup {<<api_key, ClientKey(api_key)>>}
    /\ UNCHANGED <<cache, configured>>

\* lines 89-90
UploadStart ==
    /\ pc = "upload"
    /\ RemoteCall
    /\ uploads' = uploads + 1
    /\ \E s \in States : fileState' = s
    /\ elapsed' = 0
    /\ polls' = 0
    /\ pc' = "poll"
    /\ UNCHANGED <<sessVars, fileVars, tmpVars, timedOutAt,
                   retryVars, parseVars, exc, surfaced>>

\* TimedOut with >= for >
TimedOut_AtTimeout(e) == e >= UPLOAD_TIMEOUT_SECONDS

\* line 93
TimedOut(e) == e > UPLOAD_TIMEOUT_SECONDS

\* KeepsPolling until FAILED is seen
KeepsPolling_UntilFailed(s) == s # "FAILED"

\* line 92
KeepsPolling(s) == s = "PROCESSING"

\* PollIteration with start_time taken inside the loop
PollIteration_RestartsClock ==
    /\ pc = "poll"
    /\ KeepsPolling(fileState)
    /\ ~TimedOut(elapsed)
    /\ \E d \in POLL_INTERVAL..MaxAdvance : elapsed' = d
    /\ RemoteCall
    /\ \E s \in States : fileState' = s
    /\ UNCHANGED <<pc, sessVars, fileVars, tmpVars, uploads,
                   timedOutAt, retryVars, parseVars, exc, surfaced>>

\* lines 92-96: one more iteration of the poll loop
PollIteration ==
    /\ pc = "poll"
    /\ KeepsPolling(fileState)
    /\ ~TimedOut(elapsed)
    /\ \E d \in POLL_INTERVAL..MaxAdvance : elapsed' = elapsed + d
    /\ RemoteCall
    /\ \E s \in States : fileState' = s
    /\ UNCHANGED <<pc, sessVars, fileVars, tmpVars, uploads,
                   timedOutAt, retryVars, parseVars, exc, surfaced>>

\* lines 92-96, the iterations not counted
PollAgain == PollIteration /\ UNCHANGED polls

\* lines 92-96, the iterations counted
PollAgainCounted == PollIteration /\ polls' = polls + 1

\* lines 92-94; start_time goes with the call
PollTimeout ==
    /\ pc = "poll"
    /\ KeepsPolling(fileState)
    /\ TimedOut(elapsed)
    /\ timedOutAt' = elapsed
    /\ elapsed' = 0
    /\ Raise(TimeoutExc)
    /\ UNCHANGED <<sessVars, clientVars, fileVars, tmpExists, unlinkFailed,
                   uploads, fileState, polls, retryVars, parseVars, surfaced>>

\* IsFailed without the check of line 97
IsFailed_Never(s) == FALSE

\* line 97
IsFailed(s) == s = "FAILED"

\* lines 92, 97-98
UploadFailed ==
    /\ pc = "poll"
    /\ ~KeepsPolling(fileState)
    /\ IsFailed(fileState)
    /\ elapsed' = 0
    /\ Raise(UploadFailedExc)
    /\ UNCHANGED <<sessVars, clientVars, fileVars, tmpExists, unlinkFailed,
                   uploads, fileState, timedOutAt, polls, retryVars, parseVars,
                   surfaced>>

\* lines 92, 97, 99 and 119-123
UploadReturn ==
    /\ pc = "poll"
    /\ ~KeepsPolling(fileState)
    /\ ~IsFailed(fileState)
    /\ elapsed' = 0
    /\ attempt' = 0
    /\ pc' = "generate"
    /\ UNCHANGED <<sessVars, clientVars, fileVars, tmpVars, uploads, fileState,
                   timedOutAt, polls, calls, sleeps, raised, response, parseVars,
                   exc, surfaced>>

\* -------------------------------------------------------- analyze_content
\* Backoff counting attempts from one
Backoff_FromOne(a) == 2 ^ (a + 1)

\* line 130: the backoff after a failed attempt
Backoff(a) == 2 ^ a

\* IsLastAttempt that lets one more attempt through
IsLastAttempt_OneMore(a) == a = max_retries

\* line 128
IsLastAttempt(a) == a = max_retries - 1

\* Reraised keeping the first exception
Reraised_First(rs) == rs[1]

\* line 129: a bare raise re-raises the exception being handled
Reraised(rs) == rs[Len(rs)]

\* lines 123-126: the call returns
GenerateOk ==
    /\ pc = "generate"
    /\ InferenceCall
    /\ calls' = calls + 1
    /\ \E t \in ResponseTexts : response' = t
    /\ pc' = "parse_strip"
    /\ UNCHANGED <<sessVars, fileVars, polls,
                   tmpVars, uploadVars, attempt, sleeps, raised, parseVars,
                   exc, surfaced>>

\* lines 125-130: the call raises, attempts remain
GenerateFailsRetry ==
    /\ pc = "generate"
    /\ ~IsLastAttempt(attempt)
    /\ InferenceCall
    /\ calls' = calls + 1
    /\ \E e \in InferenceErrors : raised' = Append(raised, Exc(e, ""))
    /\ sleeps' = Append(sleeps, Backoff(attempt))
    /\ attempt' = attempt + 1
    /\ UNCHANGED <<sessVars, fileVars, polls,
                   pc, tmpVars, uploadVars, response, parseVars, exc, surfaced>>

\* lines 125-129: the call raises on the last attempt
GenerateFailsFinal ==
    /\ pc = "generate"
    /\ IsLastAttempt(attempt)
    /\ InferenceCall
    /\ calls' = calls + 1
    /\ \E e \in InferenceErrors :
          /\ raised' = Append(raised, Exc(e, ""))
          /\ Raise(Reraised(raised'))
    /\ UNCHANGED <<sessVars, fileVars, polls,
                   tmpExists, unlinkFailed, uploadVars, attempt, sleeps,
                   response, parseVars, surfaced>>

\* line 132
ParseStrip ==
    /\ pc = "parse_strip"
    /\ txt' = strip(response)
    /\ pc' = "parse_extract"
    /\ UNCHANGED <<sessVars, clientVars, fileVars, polls,
                   tmpVars, uploadVars, retryVars, json_str, data, exc, surfaced>>

\* lines 133-136
ParseExtract ==
    /\ pc = "parse_extract"
    /\ txt' = ExtractCandidate(txt)
    /\ pc' = "parse_locate"
    /\ UNCHANGED <<sessVars, clientVars, fileVars, polls,
                   tmpVars, uploadVars, retryVars, json_str, data, exc, surfaced>>

\* lines 138-139
JsonStart(t) == find(t, <<"{">>)
JsonEnd(t) == rfind(t, <<"}">>) + 1

\* NoJsonFound with and for or
NoJsonFound_Both(t) == JsonStart(t) = -1 /\ JsonEnd(t) = 0

\* line 140
NoJsonFound(t) == JsonStart(t) = -1 \/ JsonEnd(t) = 0

\* line 143
JsonStr(t) == Slice(t, JsonStart(t), JsonEnd(t))

\* lines 138-141
ParseLocateFails ==
    /\ pc = "parse_locate"
    /\ NoJsonFound(txt)
    /\ Raise(NoJsonExc)
    /\ UNCHANGED <<sessVars, clientVars, fileVars, polls,
                   tmpExists, unlinkFailed, uploadVars, retryVars, parseVars,
                   surfaced>>

\* lines 138-143
ParseLocate ==
    /\ pc = "parse_locate"
    /\ ~NoJsonFound(txt)
    /\ json_str' = JsonStr(txt)
    /\ pc' = "parse_loads"
    /\ UNCHANGED <<sessVars, clientVars, fileVars, polls,
                   tmpVars, uploadVars, retryVars, txt, data, exc, surfaced>>

\* line 144: json.loads raises
ParseLoadsFails ==
    /\ pc = "parse_loads"
    /\ ~JsonLoads(json_str).ok
    /\ Raise(JsonDecodeExc)
    /\ UNCHANGED <<sessVars, clientVars, fileVars, polls,
                   tmpExists, unlinkFailed, uploadVars, retryVars, parseVars,
                   surfaced>>

\* lines 144-149
ParseReturn ==
    /\ pc = "parse_loads"
    /\ JsonLoads(json_str).ok
    /\ data' = [ok |-> TRUE, obj |-> FillMissing(JsonLoads(json_str).obj)]
    /\ pc' = "display"
    /\ UNCHANGED <<sessVars, clientVars, fileVars, polls,
                   tmpVars, uploadVars, retryVars, txt, json_str, exc, surfaced>>

\* ------------------------------------------------- display_results, main
\* lines 155-157: score / 100 needs a number
CanDisplay(d) == d["score"].type = "num"

\* lines 230-232
DisplayOk ==
    /\ pc = "display"
    /\ CanDisplay(data.obj)
    /\ pc' = "cleanup"
    /\ UNCHANGED <<sessVars, clientVars, fileVars, polls,
                   tmpVars, uploadVars, retryVars, parseVars, exc, surfaced>>

\* lines 230, 155-157
DisplayFails ==
    /\ pc = "display"
    /\ ~CanDisplay(data.obj)
    /\ Raise(DisplayExc)
    /\ UNCHANGED <<sessVars, clientVars, fileVars, polls,
                   tmpExists, unlinkFailed, uploadVars, retryVars, parseVars,
                   surfaced>>

\* Cleanup without the finally: the path is only removed when the body completed
Cleanup_NoFinally ==
    /\ pc = "cleanup"
    /\ \/ /\ tmpExists' = (exc # NoExc)
          /\ UNCHANGED unlinkFailed
       \/ /\ exc = NoExc
          /\ unlinkFailed' = TRUE
          /\ UNCHANGED tmpExists
    /\ pc' = IF exc = NoExc THEN "end" ELSE "handlers"
    /\ UNCHANGED <<sessVars, clientVars, fileVars, polls,
                   leftBody, uploadVars, retryVars, parseVars, exc, surfaced>>

\* lines 71-75: os.unlink removes the path, or raises OSError, which is passed over
Cleanup ==
    /\ pc = "cleanup"
    /\ \/ /\ tmpExists' = FALSE
          /\ UNCHANGED unlinkFailed
       \/ /\ unlinkFailed' = TRUE
          /\ UNCHANGED tmpExists
    /\ pc' = IF exc = NoExc THEN "end" ELSE "handlers"
    /\ UNCHANGED <<sessVars, clientVars, fileVars, polls,
                   leftBody, uploadVars, retryVars, parseVars, exc, surfaced>>

\* lines 234-239: the first except clause the exception is an instance of
Handler(e) ==
    IF e.type = "TimeoutError" THEN "Timeout"
    ELSE IF e.type \in {"ValueError", "JSONDecodeError"} THEN "Analysis Failed"
    ELSE "Unexpected Error"

\* lines 234-239
Handle ==
    /\ pc = "handlers"
    /\ surfaced' = Handler(exc)
    /\ exc' = NoExc
    /\ pc' = "end"
    /\ UNCHANGED <<sessVars, clientVars, fileVars, polls,
                   tmpVars, uploadVars, retryVars, parseVars>>

\* the script run is over; the next interaction starts a new one, in which the
\* session state, the resource cache and the configuration of genai live on
Rerun ==
    /\ pc \in {"end", "stop"}
    /\ pc' = "idle"
    /\ RunLocalsReset
    /\ UNCHANGED <<sessionKey, envKey, secretKey, configVars>>

\* every step but the ones that take something from the user
Steps ==
    \/ RunStart
    \/ ClearKey
    \/ SidebarPass
    \/ ValidateRejects
    \/ ValidatePasses
    \/ ClickAnalyze
    \/ NoAnalyze
    \/ StageOpen
    \/ StageChunk
    \/ StageFile
    \/ StageFileFails
    \/ Configure
    \/ UploadStart
    \/ PollAgain
    \/ PollTimeout
    \/ UploadFailed
    \/ UploadReturn
    \/ GenerateOk
    \/ GenerateFailsRetry
    \/ GenerateFailsFinal
    \/ ParseStrip
    \/ ParseExtract
    \/ ParseLocateFails
    \/ ParseLocate
    \/ ParseLoadsFails
    \/ ParseReturn
    \/ DisplayOk
    \/ DisplayFails
    \/ Cleanup
    \/ Handle
    \/ Rerun

Next ==
    \/ UploaderReturns(Files)
    \/ Steps

Spec == Init /\ [][Next]_vars

\* the with body of line 221 has been entered for file f under key k, the
\* first analysis of the process
InBody(f, k) ==
    /\ sessionKey = k
    /\ envKey = k
    /\ secretKey = NoKey
    /\ api_key = k
    /\ uploaded_file = f
    /\ cursor = 0
    /\ stagedFrom = 0
    /\ stagedLen = f.size
    /\ tmpExists = TRUE
    /\ unlinkFailed = FALSE
    /\ leftBody = NoExc
    /\ timedOutAt = -1
    /\ elapsed = 0
    /\ polls = 0
    /\ attempt = 0
    /\ sleeps = <<>>
    /\ raised = <<>>
    /\ txt = <<>>
    /\ json_str = <<>>
    /\ data = NoData
    /\ exc = NoExc
    /\ surfaced = "none"

\* ------------------------------------------------ the parser on its own
Segments ==
    { Fence, JsonFence, <<"BT">>, <<"{">>, <<"}">>, <<" ">>, <<"x">>, <<",">>,
      <<"score:80">>, <<"title:t">> }

RECURSIVE SegTexts(_)
SegTexts(n) ==
    IF n = 0 THEN {<<>>}
    ELSE LET shorter == SegTexts(n - 1)
         IN shorter \cup {t \o g : t \in shorter, g \in Segments}

\* analyze_content at line 132, after one successful call, for any response text
InitParse ==
    /\ pc = "parse_strip"
    /\ InBody([name |-> PngName, size |-> 100], KeyA)
    /\ cache = {KeyA}
    /\ configured = KeyA
    /\ modelClient = {<<KeyA, KeyA>>}
    /\ credsUsed = {KeyA}
    /\ uploads = 1
    /\ fileState = "READY"
    /\ calls = 1
    /\ response \in SegTexts(MaxSegs)

NextParse ==
    \/ ParseStrip
    \/ ParseExtract
    \/ ParseLocateFails
    \/ ParseLocate
    \/ ParseLoadsFails
    \/ ParseReturn

SpecParse == InitParse /\ [][NextParse]_vars

\* --------------------------------------------- validate_file on its own
NameSegs ==
    { <<".">>, <<"a">>, <<"p", "n", "g">>, <<"P", "N", "G">>, <<"m", "p", "4">>,
      <<"g", "i", "f">> }

RECURSIVE SegNames(_)
SegNames(n) ==
    IF n = 0 THEN {<<>>}
    ELSE LET shorter == SegNames(n - 1)
         IN shorter \cup {t \o g : t \in shorter, g \in NameSegs}

\* the sizes at and around the limit
Sizes == {0, 1, MAX_FILE_SIZE_MB * BYTES_PER_MB, MAX_FILE_SIZE_MB * BYTES_PER_MB + 1}

\* main at line 211, for any file the uploader can hold
InitValidate ==
    /\ pc = "validate"
    /\ sessionKey = KeyA
    /\ envKey = KeyA
    /\ secretKey = NoKey
    /\ api_key = KeyA
    /\ cache = {}
    /\ configured = NoKey
    /\ modelClient = {}
    /\ credsUsed = {}
    /\ \E n \in SegNames(MaxNameSegs) \ {<<>>}, z \in Sizes :
          uploaded_file = [name |-> n, size |-> z]
    /\ cursor = 0
    /\ stagedFrom = 0
    /\ stagedLen = 0
    /\ tmpExists = FALSE
    /\ unlinkFailed = FALSE
    /\ leftBody = NoExc
    /\ uploads = 0
    /\ fileState = "none"
    /\ elapsed = 0
    /\ polls = 0
    /\ timedOutAt = -1
    /\ attempt = 0
    /\ calls = 0
    /\ sleeps = <<>>
    /\ raised = <<>>
    /\ response = <<>>
    /\ txt = <<>>
    /\ json_str = <<>>
    /\ data = NoData
    /\ exc = NoExc
    /\ surfaced = "none"

NextValidate ==
    \/ ValidateRejects
    \/ ValidatePasses

SpecValidate == InitValidate /\ [][NextValidate]_vars

\* ------------------------------------- upload_file_to_gemini on its own
\* analyze_content at line 119
InitUpload ==
    /\ pc = "upload"
    /\ InBody([name |-> Mp4Name, size |-> 20000], KeyA)
    /\ cache = {KeyA}
    /\ configured = KeyA
    /\ modelClient = {}
    /\ credsUsed = {}
    /\ uploads = 0
    /\ fileState = "none"
    /\ calls = 0
    /\ response = <<>>

NextUpload ==
    \/ UploadStart
    \/ PollAgainCounted
    \/ PollTimeout
    \/ UploadFailed
    \/ UploadReturn

SpecUpload == InitUpload /\ [][NextUpload]_vars

\* the calls of the loop return and the script goes on
SpecUploadFair == SpecUpload /\ WF_vars(NextUpload)

\* ------------------------------------------- the keys of a user session
\* what is typed into the sidebar
TypedKeys == {ShortKey, KeyA, KeyB}

\* the files of the session: one that passes validation, one that does not
SessionFiles ==
    {[name |-> PngName, size |-> 100], [name |-> GifName, size |-> 100]}

\* any environment and secret store
InitSession ==
    \E env \in {NoKey, ShortKey, KeyA}, secret \in {NoKey, KeyB} :
        Start(env, secret)

NextSession ==
    \/ EnterKey(TypedKeys)
    \/ UploaderReturns(SessionFiles)
    \/ Steps

SpecSession == InitSession /\ [][NextSession]_vars

\* --------------------------------------------------------------- typing
Keys == {NoKey, ShortKey, KeyA, KeyB}

TypeOK ==
    /\ sessionKey \in Keys
    /\ api_key \in Keys
    /\ cache \subseteq Keys
    /\ configured \in Keys
    /\ credsUsed \subseteq Keys
    /\ modelClient \subseteq Keys \X Keys
    /\ cursor >= 0
    /\ cursor = 0 \/ cursor =< uploaded_file.size
    /\ stagedLen >= 0
    /\ polls >= 0
    /\ tmpExists \in BOOLEAN
    /\ unlinkFailed \in BOOLEAN
    /\ fileState \in States \cup {"none"}
    /\ elapsed \in 0..(UPLOAD_TIMEOUT_SECONDS + MaxAdvance)
    /\ attempt \in 0..(max_retries - 1)
    /\ calls \in 0..max_retries

\* ---------------------------------------------------------------- claims
\* the scope of temporary_file has been left
ScopeExited == pc \in {"handlers", "end"}

\* C1 as stated: for every exit path of the temporary_file scope the staged
\* path no longer exists once the scope has exited.
C1_PathGoneOnEveryExit == ScopeExited => ~tmpExists

\* C1, amended: on every exit path of the temporary_file scope the deletion of
\* the staged path has been attempted, so the path no longer exists unless the
\* deletion itself failed, and a failed deletion is never surfaced: the
\* exception main handles is the one that left the body, and nothing is
\* reported when the body completed.
C1_CleanupOnEveryExit ==
    ScopeExited =>
        /\ tmpExists => unlinkFailed
        /\ pc = "handlers" => exc = leftBody /\ exc # NoExc
        /\ pc = "end" =>
              /\ exc = NoExc
              /\ surfaced = IF leftBody = NoExc THEN "none" ELSE Handler(leftBody)

\* the scope was left by an upload timeout and the staged path is gone
C1_Witness ==
    /\ pc = "end"
    /\ leftBody = TimeoutExc
    /\ surfaced = "Timeout"
    /\ ~tmpExists

\* upload_file_to_gemini has returned its handle to analyze_content
UploadReturned ==
    pc \in {"generate", "parse_strip", "parse_extract", "parse_locate",
            "parse_loads", "display"}

\* C2: whenever upload_file_to_gemini returns normally, the handle it returns
\* is in state READY.
C2_ReturnedHandleReady == UploadReturned => fileState = "READY"

\* C3: while the asset is observed PROCESSING inside the timeout the poll loop
\* goes on without raising, and once READY is observed the very next step
\* returns that READY handle: no further poll, no upload, no exception.
C3_ReadyAfterProcessingReturns ==
    [][ /\ (pc = "poll" /\ fileState = "PROCESSING"
               /\ elapsed =< UPLOAD_TIMEOUT_SECONDS)
           => (pc' = "poll" /\ exc' = NoExc /\ uploads' = uploads
                 /\ elapsed' >= elapsed + POLL_INTERVAL)
        /\ (pc = "poll" /\ fileState = "READY")
           => (pc' = "generate" /\ fileState' = "READY" /\ exc' = NoExc
                 /\ uploads' = uploads /\ polls' = polls) ]_vars

\* READY was returned after at least two polls, the first of which saw PROCESSING
C3_Witness ==
    /\ pc = "generate"
    /\ fileState = "READY"
    /\ polls >= 2
    /\ exc = NoExc

\* C4 as stated: the elapsed-seconds value a TimeoutKind error carries is the
\* elapsed time since poll start and is at least the configured timeout.
C4_CarriesElapsed ==
    exc.type = "TimeoutError" =>
        /\ exc.secs = timedOutAt
        /\ exc.secs >= UPLOAD_TIMEOUT_SECONDS

\* C4, amended: an asset still PROCESSING past the timeout makes the next
\* check raise TimeoutError; a TimeoutError is raised only then; the number
\* its message carries is the configured timeout, and the elapsed time since
\* poll start is at that moment strictly greater than the configured timeout.
C4_TimeoutCarriesConfigured ==
    [][ /\ (pc = "poll" /\ fileState = "PROCESSING"
               /\ elapsed > UPLOAD_TIMEOUT_SECONDS)
           => exc'.type = "TimeoutError"
        /\ (exc'.type = "TimeoutError" /\ exc.type # "TimeoutError")
           => /\ pc = "poll" /\ fileState = "PROCESSING"
              /\ exc'.secs = UPLOAD_TIMEOUT_SECONDS
              /\ timedOutAt' = elapsed
              /\ timedOutAt' > UPLOAD_TIMEOUT_SECONDS
              /\ exc'.secs < timedOutAt' ]_vars

\* the upload timed out and the timeout was reported
C4_Witness ==
    /\ pc = "end"
    /\ leftBody.type = "TimeoutError"
    /\ timedOutAt > UPLOAD_TIMEOUT_SECONDS
    /\ fileState = "PROCESSING"

\* C5: once the remote reports FAILED the upload fails with the upload's
\* ValueError, no second upload is made and no inference call is made.
C5_FailedUploadStops ==
    (fileState = "FAILED" /\ pc # "poll") =>
        /\ leftBody = UploadFailedExc
        /\ pc \in {"cleanup", "handlers", "end"}
        /\ pc \in {"cleanup", "handlers"} => exc = UploadFailedExc
        /\ uploads = 1
        /\ calls = 0
        /\ data = NoData

\* FAILED was reported by a poll, not by the initial handle
C5_Witness ==
    /\ pc = "end"
    /\ fileState = "FAILED"
    /\ surfaced = "Analysis Failed"
    /\ calls = 0

\* the first inference call raised and the second returned
RaisedThenReturned == Len(raised) = 1 /\ calls > 1

\* the dict the parser builds from a response text
ParsedFrom(t) ==
    FillMissing(JsonLoads(JsonStr(ExtractCandidate(strip(t)))).obj)

\* C6 as stated: when attempt 1 raises and attempt 2 succeeds exactly one
\* backoff sleep is performed and it lasts 2 seconds.
C6_OneSleepOfTwoSeconds == RaisedThenReturned => sleeps = <<2>>

\* C6, amended: when attempt 1 raises and attempt 2 succeeds, exactly two
\* inference calls are made, exactly one backoff sleep is performed and it
\* lasts 2^0 = 1 second, and what analyze_content returns is parsed from the
\* second call's text.
C6_OneSleepOfOneSecond ==
    RaisedThenReturned =>
        /\ calls = 2
        /\ sleeps = <<1>>
        /\ response \in ResponseTexts
        /\ data.ok => data.obj = ParsedFrom(response)

\* attempt 1 raised, attempt 2 returned and analyze_content returned a result
C6_Witness ==
    /\ pc = "display"
    /\ RaisedThenReturned
    /\ data.ok

\* C7: when both attempts raise, the second exception is the one that
\* propagates, two calls were made, the only sleep is the one between the
\* attempts, and no result is returned.
C7_SecondExceptionPropagates ==
    Len(raised) = 2 =>
        /\ leftBody = raised[2]
        /\ pc \in {"cleanup", "handlers", "end"}
        /\ pc \in {"cleanup", "handlers"} => exc = raised[2]
        /\ calls = 2
        /\ Len(sleeps) = 1
        /\ data = NoData
        /\ response = <<>>

\* both attempts raised, with different exceptions
C7_Witness ==
    /\ pc = "cleanup"
    /\ Len(raised) = 2
    /\ raised[1] # raised[2]
    /\ exc = raised[2]

\* the places where pat occurs in t
Occurrences(t, pat) == {i \in 1..Len(t) : MatchesAt(t, pat, i)}

Least(S) == CHOOSE x \in S : \A y \in S : x =< y

\* the content after the first occurrence of open, up to the next fence that
\* starts before the place stop (up to stop when there is none)
ContentUpTo(t, open, stop) ==
    LET start == Least(Occurrences(t, open)) + Len(open)
        closes == {j \in Occurrences(t, Fence) : j >= start /\ j + Len(Fence) =< stop}
    IN SubSeq(t, start, IF closes = {} THEN stop - 1 ELSE Least(closes) - 1)

\* the content strictly between the first occurrence of open and the next fence
Between(t, open) == ContentUpTo(t, open, Len(t) + 1)

\* the place of the second JSON-tagged fence of t, the end of t when there is none
SecondJsonFence(t) ==
    LET later == {k \in Occurrences(t, JsonFence) :
                    k >= Least(Occurrences(t, JsonFence)) + Len(JsonFence)}
    IN IF later = {} THEN Len(t) + 1 ELSE Least(later)

\* the parser has chosen its candidate
CandidateChosen ==
    pc \in {"parse_locate", "parse_loads", "display"}
       \/ (pc = "cleanup" /\ exc \in {NoJsonExc, JsonDecodeExc})

\* C8 as stated: the candidate is the content strictly between the first
\* JSON-tagged fence-open and the next fence-close if the trimmed text has a
\* JSON-tagged fence, else the content between the first fence-open and the
\* next fence-close if it has any fence, else the trimmed text.
C8_CandidateBetweenFences ==
    CandidateChosen =>
        LET t == strip(response)
        IN txt = IF Occurrences(t, JsonFence) # {} THEN Between(t, JsonFence)
                 ELSE IF Occurrences(t, Fence) # {} THEN Between(t, Fence)
                 ELSE t

\* C8, amended: the order is JSON-tagged fence, then any fence, then the
\* trimmed text, and the JSON-tagged fence wins over an earlier untagged one;
\* the candidate of a JSON-tagged text is cut at the second JSON-tagged fence
\* first and then at the first fence-close inside that part, so backticks
\* running into a second JSON-tagged fence stay in the candidate.
C8_CandidateOrder ==
    CandidateChosen =>
        LET t == strip(response)
        IN txt = IF Occurrences(t, JsonFence) # {}
                 THEN ContentUpTo(t, JsonFence, SecondJsonFence(t))
                 ELSE IF Occurrences(t, Fence) # {} THEN Between(t, Fence)
                 ELSE t

\* an untagged fence comes before the JSON-tagged one and the candidate is the
\* content of the JSON-tagged one
C8_Witness ==
    /\ pc = "parse_locate"
    /\ Contains(strip(response), JsonFence)
    /\ find(strip(response), Fence) < find(strip(response), JsonFence)
    /\ txt = <<"{">>
    /\ Between(strip(response), Fence) # txt

\* the symbols of a text
Symbols(t) == {t[i] : i \in 1..Len(t)}

\* the parser is past the search for the braces
BracesLookedFor ==
    pc \in {"parse_loads", "display"}
       \/ (pc = "cleanup" /\ exc \in {NoJsonExc, JsonDecodeExc})

\* C9: a candidate without "{" or without "}" fails with the ValueError of
\* line 141; otherwise json_str is the candidate from its first "{" to its
\* last "}" inclusive, and a syntax error in it is raised as JSONDecodeError,
\* with no result.
C9_BracesOrMalformed ==
    BracesLookedFor =>
        IF "{" \notin Symbols(txt) \/ "}" \notin Symbols(txt)
        THEN pc = "cleanup" /\ exc = NoJsonExc /\ data = NoData
        ELSE /\ exc # NoJsonExc
             /\ json_str = SubSeq(txt, Least(Occurrences(txt, <<"{">>)),
                                  Len(txt) + 1
                                    - Least({Len(txt) + 1 - i : i \in Occurrences(txt, <<"}">>)}))
             /\ pc = "display" => IsJsonObject(json_str) /\ exc = NoExc /\ data.ok
             /\ pc = "cleanup" =>
                   ~IsJsonObject(json_str) /\ exc = JsonDecodeExc /\ data = NoData

\* the candidate has an opening brace but no closing one
C9_Witness ==
    /\ pc = "cleanup"
    /\ exc = NoJsonExc
    /\ "{" \in Symbols(txt)
    /\ "}" \notin Symbols(txt)

\* the members of key f in the text json.loads was given
MembersOf(f) ==
    {i \in 1..Len(json_str) : json_str[i] \in Members /\ MemberKey(json_str[i]) = f}

\* C10: a returned result has all five fields; a field the parsed object
\* lacks is "Missing <fieldname>", a field it has keeps the parsed value (of
\* its last member); and a result never comes with an error.
C10_FullyPopulated ==
    /\ data.ok =>
          /\ exc = NoExc
          /\ pc = "display"
          /\ \A i \in 1..Len(required_fields) :
                LET f == required_fields[i]
                IN /\ f \in DOMAIN data.obj
                   /\ data.obj[f] =
                         IF MembersOf(f) = {}
                         THEN [type |-> "str", num |-> 0, str |-> "Missing " \o f]
                         ELSE MemberVal(json_str[
                                 Len(json_str) + 1
                                   - Least({Len(json_str) + 1 - j : j \in MembersOf(f)})])
    /\ exc # NoExc => data = NoData

\* score was parsed, title was not
C10_Witness ==
    /\ pc = "display"
    /\ data.ok
    /\ data.obj["score"] = Num(80)
    /\ data.obj["title"] = Str("Missing title")
    /\ data.obj["next_time"] = Str("Missing next_time")

\* the error kinds of analyze_content
ErrorKinds ==
    {"TimeoutKind", "UploadFailedKind", "TransientInferenceKind",
     "MalformedResponseKind"}

\* the exceptions the code raises for an error kind
ExcsOfKind(k) ==
    IF k = "TimeoutKind" THEN {TimeoutExc}
    ELSE IF k = "UploadFailedKind" THEN {UploadFailedExc}
    ELSE IF k = "TransientInferenceKind" THEN {Exc(e, "") : e \in InferenceErrors}
    ELSE IF k = "MalformedResponseKind" THEN {NoJsonExc, JsonDecodeExc}
    ELSE {}

\* the error kind that occurred in analyze_content, by what the run went through
KindOccurred ==
    IF timedOutAt # -1 THEN "TimeoutKind"
    ELSE IF uploads > 0 /\ fileState = "FAILED" /\ calls = 0 THEN "UploadFailedKind"
    ELSE IF calls > 0 /\ Len(raised) = calls THEN "TransientInferenceKind"
    ELSE IF calls > Len(raised) /\ ~data.ok THEN "MalformedResponseKind"
    ELSE "none"

\* an exception has left analyze_content and is on its way to the caller
Propagating == exc # NoExc /\ exc = leftBody /\ uploads > 0

\* the exception that propagates is one of those of the kind that occurred
KindMatchesException ==
    Propagating /\ exc.type # "TypeError" => exc \in ExcsOfKind(KindOccurred)

\* C11 as stated: the error kinds surface to the caller of analyze_content as
\* pairwise distinct error conditions, so that the type of the error received
\* tells which kind occurred: no exception of another kind has the type of the
\* one received.
C11_KindsDistinctByType ==
    Propagating /\ KindOccurred \in ErrorKinds =>
        \A k \in ErrorKinds \ {KindOccurred} :
            \A e \in ExcsOfKind(k) : e.type # exc.type

\* the body of the with statement of line 221 is running
BodyRuns ==
    pc \in {"configure", "upload", "poll", "generate", "parse_strip",
            "parse_extract", "parse_locate", "parse_loads", "display"}

\* the staged file holds the bytes of the upload from its first to its last
StagedWhole == stagedFrom = 0 /\ stagedLen = uploaded_file.size

\* C12: for an upload of any length (empty, shorter than a chunk, a multiple
\* of the chunk size of 8192 bytes, or not) the file temporary_file staged is
\* the whole upload when the path is handed to the body, and while the body runs.
C12_StagedFileIsWholeUpload ==
    BodyRuns => StagedWhole /\ uploaded_file # NoFile

\* an upload of two full chunks and a shorter one has been staged and the path
\* has just been handed to the body
C12_Witness ==
    /\ pc = "configure"
    /\ uploaded_file.size > 2 * chunk_size
    /\ uploaded_file.size < 3 * chunk_size
    /\ stagedLen = uploaded_file.size

\* the scope of temporary_file was left after the file had been staged
ExitedAfterStaging ==
    /\ pc \in {"cleanup", "handlers", "end"}
    /\ leftBody # StageExc

\* C13: after temporary_file has written the staged file, the cursor of the
\* upload stream is at position 0 while the body runs and after the scope has
\* been left, whichever way it was left.
C13_CursorAtStart ==
    BodyRuns \/ ExitedAfterStaging => cursor = 0

\* the stream was read to its end, two chunks of it, and the scope was left by
\* an exception of the body
C13_Witness ==
    /\ pc = "handlers"
    /\ leftBody = UploadFailedExc
    /\ stagedLen = 2 * chunk_size
    /\ cursor = 0

\* the name has a '.' and what follows the last one, lower-cased, is a key of
\* the table of supported types
ExtensionSupported(name) ==
    /\ \E i \in 1..Len(name) : name[i] = "."
    /\ Ext(name) \in SUPPORTED_MIME_TYPES

\* C14 as stated: validate_file returns ok exactly when a file is present, its
\* size is at most the configured maximum and the lower-cased substring after
\* the last '.' of its name is in the table of supported extensions; a file
\* over the maximum and a file without such an extension, a name with no '.'
\* included, is rejected whatever its size.
C14_OkExactlyWhenSupported ==
    pc = "validate" =>
        (ValidateFile(uploaded_file).ok
            <=> /\ uploaded_file # NoFile
                /\ uploaded_file.size =< MAX_FILE_SIZE_MB * BYTES_PER_MB
                /\ ExtensionSupported(uploaded_file.name))

\* the uploader holds a file validate_file rejects
InvalidFile == uploaded_file # NoFile /\ ~ValidateFile(uploaded_file).ok

\* C15: when validation of the uploaded file fails the flow stops in that
\* interaction: the script run goes from the validation to its end, no
\* temporary file is staged, no upload, poll or inference call is made and
\* nothing is slept on or retried; the failure is what the run reports.
C15_InvalidFileStops ==
    InvalidFile =>
        /\ pc \in {"validate", "stop"}
        /\ ~tmpExists
        /\ stagedLen = 0
        /\ uploads = 0
        /\ calls = 0
        /\ credsUsed = {}
        /\ sleeps = <<>>
        /\ raised = <<>>
        /\ pc = "stop" => surfaced = ValidateFile(uploaded_file).msg

\* a file over the size limit was rejected and the run has ended
C15_Witness ==
    /\ pc = "stop"
    /\ InvalidFile
    /\ TooLarge(uploaded_file.size)
    /\ surfaced = "File too large"

\* the response was malformed: no JSON object in it, or one json.loads rejects
MalformedResponse == leftBody \in {NoJsonExc, JsonDecodeExc}

\* what holds of the calls made so far in an invocation of analyze_content
CallsInOrder ==
    /\ uploads =< 1
    /\ pc \in {"poll", "generate", "parse_strip", "parse_extract",
               "parse_locate", "parse_loads", "display"} => uploads = 1
    /\ calls > 0 => /\ uploads = 1
                    /\ timedOutAt = -1
                    /\ ~KeepsPolling(fileState)
                    /\ ~IsFailed(fileState)
    /\ calls =< 2
    /\ calls =< Len(raised) + 1
    /\ timedOutAt # -1 \/ fileState = "FAILED" => calls = 0
    /\ MalformedResponse => calls = Len(raised) + 1

\* what holds of a step that makes a remote upload or inference call
CallsOneByOne ==
    /\ uploads' > uploads => uploads = 0 /\ calls = 0 /\ uploads' = 1
    /\ calls' > calls =>
          /\ calls' = calls + 1
          /\ pc = "generate"
          /\ uploads = 1
          /\ response = <<>>
          /\ Len(raised) = calls
    /\ response # <<>> /\ response' # <<>> => calls' = calls

\* C16: in an invocation of analyze_content the upload is initiated once,
\* inference calls are made only after the upload returned, there are at most
\* two of them and a second one only after the first raised; a timeout or a
\* FAILED upload leaves no inference call, and a response, malformed or not,
\* is never followed by another inference call.
C16_CallDiscipline == [](CallsInOrder) /\ [][CallsOneByOne]_vars

\* the first call raised, the second returned a text without a JSON object
C16_Witness ==
    /\ pc = "handlers"
    /\ exc = NoJsonExc
    /\ calls = 2
    /\ Len(raised) = 1
    /\ uploads = 1

\* upload_file_to_gemini has been left
UploadExited == pc \in {"generate", "cleanup"}

\* the most polls a run makes: the timeout over the interval, plus one
MaxPolls == (UPLOAD_TIMEOUT_SECONDS \div POLL_INTERVAL) + 1

\* how upload_file_to_gemini ends, and how often it polls
UploadOutcome ==
    /\ pc = "generate" =>
          /\ exc = NoExc
          /\ ~KeepsPolling(fileState)
          /\ ~IsFailed(fileState)
    /\ pc = "cleanup" =>
          \/ exc = UploadFailedExc /\ fileState = "FAILED"
          \/ exc = TimeoutExc /\ fileState = "PROCESSING"
    /\ polls =< MaxPolls

\* a step that leaves the loop while PROCESSING is seen raises the timeout
OnlyTimeoutAborts ==
    pc = "poll" /\ fileState = "PROCESSING" /\ pc' # "poll" =>
        /\ exc' = TimeoutExc
        /\ timedOutAt' > UPLOAD_TIMEOUT_SECONDS

\* C17: with every sleep advancing the clock by at least the interval and
\* every remote call returning, upload_file_to_gemini terminates; it ends by
\* returning a handle, by the FAILED error or by the timeout error; it polls
\* at most timeout / interval + 1 times; and a run that keeps seeing
\* PROCESSING is ended by the timeout only.
C17_UploadTerminates ==
    /\ <>UploadExited
    /\ [](UploadOutcome)
    /\ [][OnlyTimeoutAborts]_vars

\* PROCESSING was seen for as long as can be: the timeout came after the most
\* polls there can be
C17_Witness ==
    /\ pc = "cleanup"
    /\ exc = TimeoutExc
    /\ polls = MaxPolls

\* C18 as stated: across invocations of analyze_content with different
\* credentials every remote call of an invocation (upload, poll, inference) is
\* made under the credential passed to that invocation, never under the
\* configuration an earlier invocation with another credential left behind.
C18_CallsUnderOwnCredential == credsUsed \subseteq {api_key}

\* C19 as stated: on every successful return of analyze_content the score is a
\* number in the range 0 to 100, also when the JSON of the model left it out,
\* so that display_results can render score / 100.
C19_ScoreIsPercentage ==
    data.ok =>
        /\ data.obj["score"].type = "num"
        /\ data.obj["score"].num \in 0..100

\* C20 as stated: whatever the interactions, analyze_content is only invoked
\* with a credential longer than 30 characters, and no remote call is made
\* under a shorter one.
C20_OnlyLongCredentials ==
    /\ BodyRuns => LongEnough(api_key)
    /\ \A k \in credsUsed : LongEnough(k)

====
